---- MODULE Spec2Model ----
(***************************************************************************)
(* cbsub (src/main.rs): substitutes {{variable}} placeholders of a prompt  *)
(* file and copies the result to the clipboard.                            *)
(*                                                                         *)
(* A text is a sequence of one-character strings.  An Option<T> is a       *)
(* sequence of length 0 (None) or 1 (Some(x)); a HashMap<String,String> is *)
(* a function whose domain is its key set; a HashSet is a set.             *)
(***************************************************************************)
EXTENDS Integers, Sequences, FiniteSets, TLC

VARIABLES
    matches,        \* clap's ArgMatches: file, value, substitution, preview, list
    pc,             \* position of main
    content,        \* main: content
    variables,      \* main: variables
    substitutions,  \* main: substitutions
    processed,      \* TRUE once process_content has been performed
    result,         \* main: result
    stdout,         \* what println! wrote, in order
    clipboard,      \* the texts copy_to_clipboard was called with, in order
    exit,           \* the Result main returned (kind "Ok" until an Err)
    sub,            \* parse_substitution: its argument
    parsed          \* parse_substitution: its return value

vars == <<matches, pc, content, variables, substitutions, processed, result,
          stdout, clipboard, exit, sub, parsed>>

-----------------------------------------------------------------------------
(* Bounds of the model *)

MaxFrags == 3       \* a text of the function-level check has at most MaxFrags fragments
MaxDocFrags == 2    \* a prompt file of a run has at most MaxDocFrags fragments
MaxEntries == 2     \* a run has at most MaxEntries -s occurrences
MaxRawLen == 4      \* an argument of parse_substitution has at most MaxRawLen characters

-----------------------------------------------------------------------------
(* Characters and strings *)

None == <<>>
Some(x) == <<x>>

\* The members of [a-zA-Z0-9_] the model's texts use.
IsWord(c) == c \in {"a", "b", "x", "v", "A", "B", "0", "_"}

\* The members of \s the model's texts use.
IsSpace(c) == c \in {" "}

\* char::to_lowercase on the model's characters.
LowerChar(c) ==
    CASE c = "A" -> "a"
      [] c = "B" -> "b"
      [] OTHER -> c

to_lowercase(s) == [i \in 1..Len(s) |-> LowerChar(s[i])]

\* Greedy \s*: the first position j >= i of s that holds no whitespace
\* (Len(s)+1 when there is none).
SkipSpace(s, i) ==
    CHOOSE j \in i..(Len(s) + 1) :
        /\ \A k \in i..(j - 1) : IsSpace(s[k])
        /\ (j = Len(s) + 1 \/ ~IsSpace(s[j]))

\* Greedy [a-zA-Z0-9_]*: the first position j >= i of s that holds no word
\* character (Len(s)+1 when there is none).
SkipWord(s, i) ==
    CHOOSE j \in i..(Len(s) + 1) :
        /\ \A k \in i..(j - 1) : IsWord(s[k])
        /\ (j = Len(s) + 1 \/ ~IsWord(s[j]))

-----------------------------------------------------------------------------
(* The placeholder pattern \{\{\s*([a-zA-Z0-9_]+)\s*\}\} *)

\* The match of the pattern that starts at position i of s, if there is one:
\* start and end (exclusive) of the whole match, from and to of group 1.
MatchAt(s, i) ==
    LET j == SkipSpace(s, i + 2)
        k == SkipWord(s, j)
        l == SkipSpace(s, k)
    IN  IF /\ i + 1 <= Len(s)
           /\ s[i] = "{"
           /\ s[i + 1] = "{"
           /\ k > j
           /\ l + 1 <= Len(s)
           /\ s[l] = "}"
           /\ s[l + 1] = "}"
        THEN Some([start |-> i, end |-> l + 2, name |-> SubSeq(s, j, k - 1)])
        ELSE None

\* Regex::captures_iter: the leftmost non-overlapping matches from position i on.
RECURSIVE captures_from(_, _)
captures_from(s, i) ==
    IF i > Len(s) THEN <<>>
    ELSE LET m == MatchAt(s, i)
         IN  IF m = None THEN captures_from(s, i + 1)
             ELSE <<m[1]>> \o captures_from(s, m[1].end)

captures_iter(s) == captures_from(s, 1)

extract_variables_no_fold(text) ==
    LET caps == captures_iter(text)
    IN  {caps[n].name : n \in DOMAIN caps}

extract_variables(text) ==
    LET caps == captures_iter(text)
    IN  {to_lowercase(caps[n].name) : n \in DOMAIN caps}

\* The closure process_content hands to replace_all, with the name looked up as
\* captured: the replacement of one match.
Replacement_lookup_as_written(s, cap, subs) ==
    IF cap.name \in DOMAIN subs THEN subs[cap.name]
    ELSE SubSeq(s, cap.start, cap.end - 1)

\* The same closure, with an unmapped placeholder written back as {{name}}.
Replacement_rebuilt(s, cap, subs) ==
    LET var_name == to_lowercase(cap.name)
    IN  IF var_name \in DOMAIN subs THEN subs[var_name]
        ELSE <<"{", "{">> \o cap.name \o <<"}", "}">>

\* The closure process_content hands to replace_all: the replacement of one
\* match, caps[0] when the folded name has no entry.
Replacement(s, cap, subs) ==
    LET var_name == to_lowercase(cap.name)
    IN  IF var_name \in DOMAIN subs THEN subs[var_name]
        ELSE SubSeq(s, cap.start, cap.end - 1)

\* Regex::replace_all: the text between the matches is copied, each match is
\* replaced by what the closure returns for it.
RECURSIVE replace_from(_, _, _, _, _)
replace_from(s, caps, n, last, subs) ==
    IF n > Len(caps) THEN SubSeq(s, last, Len(s))
    ELSE SubSeq(s, last, caps[n].start - 1)
            \o Replacement(s, caps[n], subs)
            \o replace_from(s, caps, n + 1, caps[n].end, subs)

process_content(text, subs) == replace_from(text, captures_iter(text), 1, 1, subs)

-----------------------------------------------------------------------------
(* parse_substitution and get_single_substitution *)

Ok(v) == [ok |-> TRUE, kind |-> "Ok", detail |-> <<>>, value |-> v]
Err(kind, detail) == [ok |-> FALSE, kind |-> kind, detail |-> detail, value |-> <<>>]

HasEq(s) == \E i \in 1..Len(s) : s[i] = "="
FirstEq(s) == CHOOSE i \in 1..Len(s) : s[i] = "=" /\ \A k \in 1..(i - 1) : s[k] # "="
LastEq(s) == CHOOSE i \in 1..Len(s) : s[i] = "=" /\ \A k \in (i + 1)..Len(s) : s[k] # "="

\* str::splitn(2, '='): the whole string when it has no '=', else the part
\* before the first '=' and everything after it.
splitn2(s) ==
    IF ~HasEq(s) THEN <<s>>
    ELSE <<SubSeq(s, 1, FirstEq(s) - 1), SubSeq(s, FirstEq(s) + 1, Len(s))>>

\* The split taken at the last '=' instead (str::rsplitn, parts reordered).
parse_substitution_last_eq(s) ==
    LET parts == IF ~HasEq(s) THEN <<s>>
                 ELSE <<SubSeq(s, 1, LastEq(s) - 1), SubSeq(s, LastEq(s) + 1, Len(s))>>
    IN  IF Len(parts) # 2 THEN Err("InvalidFormat", s)
        ELSE LET key == to_lowercase(parts[1])
                 value == parts[2]
             IN  IF value = <<>> THEN Err("MissingValue", key)
                 ELSE Ok(<<key, value>>)

parse_substitution(s) ==
    LET parts == splitn2(s)
    IN  IF Len(parts) # 2 THEN Err("InvalidFormat", s)
        ELSE LET key == to_lowercase(parts[1])
                 value == parts[2]
             IN  IF value = <<>> THEN Err("MissingValue", key)
                 ELSE Ok(<<key, value>>)

EmptyMap == <<>>
Insert(m, k, v) == [x \in (DOMAIN m) \cup {k} |-> IF x = k THEN v ELSE m[x]]

\* HashMap::extend
Extend(m, other) ==
    [x \in (DOMAIN m) \cup (DOMAIN other) |-> IF x \in DOMAIN other THEN other[x] ELSE m[x]]

get_single_substitution(vs, pos_value) ==
    IF pos_value # None
    THEN IF Cardinality(vs) # 1
         THEN Err("MoreThanOneVariable", <<>>)
         ELSE LET var == CHOOSE v \in vs : TRUE
              IN  Ok(Insert(EmptyMap, var, pos_value[1]))
    ELSE Ok(EmptyMap)

-----------------------------------------------------------------------------
(* The inputs of a run *)

PhA == <<"{", "{", "a", "}", "}">>
PhUpperA == <<"{", "{", "A", "}", "}">>
PhSpacedA == <<"{", "{", " ", "a", " ", "}", "}">>
PhB == <<"{", "{", "b", "}", "}">>

\* The fragments the prompt files of a run are made of.
DocFrags == {PhA, <<"{", "{", " ", "A", "}", "}">>, PhB, <<"x">>}

RECURSIVE TextsUpTo(_, _)
TextsUpTo(frags, n) ==
    IF n = 0 THEN {<<>>}
    ELSE LET shorter == TextsUpTo(frags, n - 1)
         IN  shorter \cup {t \o f : t \in shorter, f \in frags}

Docs == TextsUpTo(DocFrags, MaxDocFrags)

\* The file argument: None is a file that cannot be read.
Files == {None} \cup {Some(d) : d \in Docs}

\* The positional value.
Values == {None, Some(<<>>), Some(<<"v">>)}

\* The -s occurrences.
RawArgs == {<<"a", "=", "v">>, <<"B", "=", "x">>, <<"a", "=">>, <<"a", "b">>}
ArgLists == UNION {[1..n -> RawArgs] : n \in 0..MaxEntries}

NoMatches == [file |-> None, value |-> None, substitution |-> <<>>,
              preview |-> FALSE, list |-> FALSE]

Line(msg, vs, text) == [msg |-> msg, vars |-> vs, text |-> text]

Init ==
    /\ matches \in [file : Files, value : Values, substitution : ArgLists,
                    preview : BOOLEAN, list : BOOLEAN]
    /\ pc = "read"
    /\ content = <<>>
    /\ variables = {}
    /\ substitutions = EmptyMap
    /\ processed = FALSE
    /\ result = <<>>
    /\ stdout = <<>>
    /\ clipboard = <<>>
    /\ exit = Ok(<<>>)
    /\ sub = <<>>
    /\ parsed = Ok(<<>>)

-----------------------------------------------------------------------------
(* main *)

\* fs::read_to_string(file_path).map_err(..)?
ReadFile ==
    /\ pc = "read"
    /\ IF matches.file = None
       THEN /\ exit' = Err("CouldNotReadFile", <<>>)
            /\ pc' = "done"
            /\ UNCHANGED content
       ELSE /\ content' = matches.file[1]
            /\ pc' = "extract"
            /\ UNCHANGED exit
    /\ UNCHANGED <<matches, variables, substitutions, processed, result, stdout,
                   clipboard, sub, parsed>>

\* let variables = extract_variables(&content);
ExtractVariables ==
    /\ pc = "extract"
    /\ variables' = extract_variables(content)
    /\ pc' = "list"
    /\ UNCHANGED <<matches, content, substitutions, processed, result, stdout,
                   clipboard, exit, sub, parsed>>

\* if matches.is_present("list") { .. return Ok(()); }
ListVariables ==
    /\ pc = "list"
    /\ IF matches.list
       THEN /\ stdout' = Append(stdout,
                    IF variables = {}
                    THEN Line("No variables found in the prompt file.", {}, <<>>)
                    ELSE Line("Found variables:", variables, <<>>))
            /\ pc' = "done"
       ELSE /\ pc' = "build"
            /\ UNCHANGED stdout
    /\ UNCHANGED <<matches, content, variables, substitutions, processed, result,
                   clipboard, exit, sub, parsed>>

\* The loop over the -s occurrences from entry n on: the map built and the
\* Result the loop ends with (the first Err parse_substitution returns).
RECURSIVE build_from(_, _, _)
build_from(entries, n, subs) ==
    IF n > Len(entries) THEN [res |-> Ok(<<>>), subs |-> subs]
    ELSE LET r == parse_substitution(entries[n])
         IN  IF ~r.ok THEN [res |-> r, subs |-> subs]
             ELSE build_from(entries, n + 1, Insert(subs, r.value[1], r.value[2]))

BuildSubstitutions ==
    /\ pc = "build"
    /\ LET b == build_from(matches.substitution, 1, EmptyMap)
       IN  /\ substitutions' = b.subs
           /\ IF b.res.ok
              THEN pc' = "positional" /\ UNCHANGED exit
              ELSE pc' = "done" /\ exit' = Err(b.res.kind, b.res.detail)
    /\ UNCHANGED <<matches, content, variables, processed, result, stdout,
                   clipboard, sub, parsed>>

\* The positional block with the no-variables check ahead of the ambiguity check.
positional_variables_first(vs, subs, pos_value) ==
    IF pos_value = None THEN Ok(subs)
    ELSE IF vs = {} THEN Err("NoVariables", <<>>)
    ELSE IF DOMAIN subs # {} THEN Err("Ambiguous", <<>>)
    ELSE LET single_subs == get_single_substitution(vs, pos_value)
         IN  IF ~single_subs.ok THEN single_subs
             ELSE Ok(Extend(subs, single_subs.value))

\* The positional block without its own no-variables check.
positional_no_empty_check(vs, subs, pos_value) ==
    IF pos_value = None THEN Ok(subs)
    ELSE IF DOMAIN subs # {} THEN Err("Ambiguous", <<>>)
    ELSE LET single_subs == get_single_substitution(vs, pos_value)
         IN  IF ~single_subs.ok THEN single_subs
             ELSE Ok(Extend(subs, single_subs.value))

\* if let Some(pos_value) = matches.value_of("value") { .. }: the Err returned,
\* or the substitutions after the block.
positional(vs, subs, pos_value) ==
    IF pos_value = None THEN Ok(subs)
    ELSE IF DOMAIN subs # {} THEN Err("Ambiguous", <<>>)
    ELSE IF vs = {} THEN Err("NoVariables", <<>>)
    ELSE LET single_subs == get_single_substitution(vs, pos_value)
         IN  IF ~single_subs.ok THEN single_subs
             ELSE Ok(Extend(subs, single_subs.value))

\* The positional block with an Err reported at the end of the run instead of
\* returned at once.
PositionalSubstitution_late_return ==
    /\ pc = "positional"
    /\ LET r == positional(variables, substitutions, matches.value)
       IN  /\ pc' = "empty_check"
           /\ IF r.ok
              THEN substitutions' = r.value /\ UNCHANGED exit
              ELSE exit' = Err(r.kind, r.detail) /\ UNCHANGED substitutions
    /\ UNCHANGED <<matches, content, variables, processed, result, stdout,
                   clipboard, sub, parsed>>

PositionalSubstitution ==
    /\ pc = "positional"
    /\ LET r == positional(variables, substitutions, matches.value)
       IN  IF r.ok
           THEN /\ substitutions' = r.value
                /\ pc' = "empty_check"
                /\ UNCHANGED exit
           ELSE /\ exit' = Err(r.kind, r.detail)
                /\ pc' = "done"
                /\ UNCHANGED substitutions
    /\ UNCHANGED <<matches, content, variables, processed, result, stdout,
                   clipboard, sub, parsed>>

\* copy_to_clipboard(text)?: the sink is called with text; spawning or writing to
\* the platform's command may fail, and the Err is returned.
CopyToClipboard(text) ==
    /\ clipboard' = Append(clipboard, text)
    /\ \E ok \in BOOLEAN :
          IF ok THEN UNCHANGED exit ELSE exit' = Err("Clipboard", <<>>)

\* The empty-substitutions block without the test of variables.
NoSubstitution_copy_always ==
    /\ pc = "empty_check"
    /\ IF DOMAIN substitutions = {}
       THEN /\ pc' = "done"
            /\ CopyToClipboard(content)
            /\ stdout' = IF exit'.ok
                         THEN Append(stdout, Line("File content copied to clipboard.", {}, <<>>))
                         ELSE stdout
       ELSE /\ pc' = "process"
            /\ UNCHANGED <<stdout, clipboard, exit>>
    /\ UNCHANGED <<matches, content, variables, substitutions, processed, result,
                   sub, parsed>>

\* if substitutions.is_empty() { .. }
NoSubstitution ==
    /\ pc = "empty_check"
    /\ IF DOMAIN substitutions = {}
       THEN /\ pc' = "done"
            /\ IF variables # {}
               THEN /\ stdout' = Append(stdout, Line("Found variables:", variables, <<>>))
                    /\ UNCHANGED <<clipboard, exit>>
               ELSE /\ CopyToClipboard(content)
                    /\ stdout' = IF exit'.ok
                                 THEN Append(stdout,
                                        Line("File content copied to clipboard.", {}, <<>>))
                                 ELSE stdout
       ELSE /\ pc' = "process"
            /\ UNCHANGED <<stdout, clipboard, exit>>
    /\ UNCHANGED <<matches, content, variables, substitutions, processed, result,
                   sub, parsed>>

\* let result = process_content(&content, &substitutions);
PerformSubstitutions ==
    /\ pc = "process"
    /\ result' = process_content(content, substitutions)
    /\ processed' = TRUE
    /\ pc' = "output"
    /\ UNCHANGED <<matches, content, variables, substitutions, stdout, clipboard,
                   exit, sub, parsed>>

\* if matches.is_present("preview") { println } else { copy_to_clipboard }
Output ==
    /\ pc = "output"
    /\ IF matches.preview
       THEN /\ stdout' = Append(stdout, Line("", {}, result))
            /\ UNCHANGED <<clipboard, exit>>
       ELSE /\ CopyToClipboard(result)
            /\ stdout' = IF exit'.ok
                         THEN Append(stdout,
                                Line("Processed content copied to clipboard.", {}, <<>>))
                         ELSE stdout
    /\ pc' = "done"
    /\ UNCHANGED <<matches, content, variables, substitutions, processed, result,
                   sub, parsed>>

Next ==
    \/ ReadFile
    \/ ExtractVariables
    \/ ListVariables
    \/ BuildSubstitutions
    \/ PositionalSubstitution
    \/ NoSubstitution
    \/ PerformSubstitutions
    \/ Output

Spec == Init /\ [][Next]_vars

-----------------------------------------------------------------------------
(* extract_variables and process_content applied to bounded texts and maps *)

\* The fragments of the texts: placeholders in several spellings, and the
\* pieces of placeholders.
Frags == {PhA, PhUpperA, PhSpacedA, PhB, <<"{", "{">>, <<"}", "}">>, <<"{">>,
          <<"x">>, <<" ">>}

Texts == TextsUpTo(Frags, MaxFrags)

MapKeys == {<<"a">>, <<"b">>}
MapValues == {<<"v">>, PhB}
Maps == UNION {[ks -> MapValues] : ks \in SUBSET MapKeys}

InitText ==
    /\ content \in Texts
    /\ substitutions \in Maps
    /\ pc = "fn_extract"
    /\ matches = NoMatches
    /\ variables = {}
    /\ processed = FALSE
    /\ result = <<>>
    /\ stdout = <<>>
    /\ clipboard = <<>>
    /\ exit = Ok(<<>>)
    /\ sub = <<>>
    /\ parsed = Ok(<<>>)

CallExtractVariables ==
    /\ pc = "fn_extract"
    /\ variables' = extract_variables(content)
    /\ pc' = "fn_process"
    /\ UNCHANGED <<matches, content, substitutions, processed, result, stdout,
                   clipboard, exit, sub, parsed>>

CallProcessContent ==
    /\ pc = "fn_process"
    /\ result' = process_content(content, substitutions)
    /\ processed' = TRUE
    /\ pc' = "fn_done"
    /\ UNCHANGED <<matches, content, variables, substitutions, stdout, clipboard,
                   exit, sub, parsed>>

NextText == CallExtractVariables \/ CallProcessContent

SpecText == InitText /\ [][NextText]_vars

-----------------------------------------------------------------------------
(* parse_substitution applied to bounded strings *)

RawChars == {"=", "a", "B"}
Raws == UNION {[1..n -> RawChars] : n \in 0..MaxRawLen}

InitParse ==
    /\ sub \in Raws
    /\ parsed = Ok(<<>>)
    /\ pc = "fn_parse"
    /\ matches = NoMatches
    /\ content = <<>>
    /\ variables = {}
    /\ substitutions = EmptyMap
    /\ processed = FALSE
    /\ result = <<>>
    /\ stdout = <<>>
    /\ clipboard = <<>>
    /\ exit = Ok(<<>>)

CallParseSubstitution ==
    /\ pc = "fn_parse"
    /\ parsed' = parse_substitution(sub)
    /\ pc' = "fn_done"
    /\ UNCHANGED <<matches, content, variables, substitutions, processed, result,
                   stdout, clipboard, exit, sub>>

NextParse == CallParseSubstitution

SpecParse == InitParse /\ [][NextParse]_vars

-----------------------------------------------------------------------------
(* Claims about a run (Spec) *)

AllParse(entries) == \A n \in DOMAIN entries : parse_substitution(entries[n]).ok

\* The run got past the file read, the list flag and the -s occurrences.
Reconciles ==
    /\ matches.file # None
    /\ ~matches.list
    /\ AllParse(matches.substitution)

PastPositional == pc \in {"empty_check", "process", "output", "done"}

\* C1 as stated: whenever at least one key=value entry and a positional value
\* are both supplied, the run on any document ends with the ambiguous-source
\* error, without a substitution and without a clipboard write.
C1_AmbiguousWheneverBoth ==
    (pc = "done" /\ matches.file # None /\ AllParse(matches.substitution)
        /\ matches.substitution # <<>> /\ matches.value # None)
        => (exit.kind = "Ambiguous" /\ ~processed /\ clipboard = <<>>)

\* C1 amended: when the file is readable, the list flag is not set and every -s
\* entry parses, at least one -s entry together with a positional value makes
\* the run end with the ambiguous-source error whatever the number of variables
\* of the document, and no substitution or clipboard write happens in the run.
C1_AmbiguousWins ==
    (Reconciles /\ matches.substitution # <<>> /\ matches.value # None)
        => /\ ~processed
           /\ clipboard = <<>>
           /\ PastPositional => (pc = "done" /\ exit.kind = "Ambiguous")

\* A run with both sources on a document without variables ended with the
\* ambiguous-source error.
C1_Witness ==
    /\ pc = "done"
    /\ exit.kind = "Ambiguous"
    /\ matches.file # None
    /\ extract_variables(matches.file[1]) = {}

\* C2: with a positional value and no -s entry, reconciliation is decided by the
\* number n of distinct folded variables of the document: n = 0 ends with the
\* no-variables error, n > 1 with the multiple-variables error, and n = 1 leaves
\* the mapping with exactly one entry, that variable mapped to the value.
C2_PositionalByCount ==
    (Reconciles /\ matches.substitution = <<>> /\ matches.value # None /\ PastPositional)
        => LET vs == extract_variables(matches.file[1])
               n == Cardinality(vs)
           IN  /\ n = 0 => (pc = "done" /\ exit.kind = "NoVariables")
               /\ n > 1 => (pc = "done" /\ exit.kind = "MoreThanOneVariable")
               /\ n = 1 => /\ exit.kind \in {"Ok", "Clipboard"}
                           /\ DOMAIN substitutions = vs
                           /\ \A k \in vs : substitutions[k] = matches.value[1]

\* A positional run on a document whose two placeholders fold to one variable
\* went through with that variable mapped to the value.
C2_Witness ==
    /\ pc = "done"
    /\ Reconciles
    /\ matches.substitution = <<>>
    /\ matches.value # None
    /\ Len(captures_iter(content)) = 2
    /\ Cardinality(variables) = 1
    /\ processed
    /\ DOMAIN substitutions = variables

\* C3: the mapping handed to process_content never holds an empty value.
C3_NoEmptyValue ==
    processed => \A k \in DOMAIN substitutions : substitutions[k] # <<>>

TerminalErrors ==
    {"CouldNotReadFile", "InvalidFormat", "MissingValue", "Ambiguous", "NoVariables",
     "MoreThanOneVariable"}

\* C4: in a run that ends with one of the listed errors, process_content is never
\* performed and the clipboard sink is never called, and nothing follows the error.
C4_ErrorsTerminal ==
    exit.kind \in TerminalErrors
        => (pc = "done" /\ ~processed /\ clipboard = <<>>)

\* A run ended with the multiple-variables error.
C4_Witness ==
    /\ pc = "done"
    /\ exit.kind = "MoreThanOneVariable"
    /\ Cardinality(variables) = 2

\* C5: with the preview flag set the clipboard sink is never called.
C5_PreviewNeverCopies ==
    matches.preview => clipboard = <<>>

\* C6: after reconciliation left the mapping empty, a document with variables has
\* its variable list printed and nothing substituted or copied, and a document
\* without variables is handed to the sink verbatim; the sink only ever receives
\* the output of process_content or, when there are no variables, the raw text.
C6_EmptyMapping ==
    /\ (pc = "done" /\ Reconciles /\ exit.kind \in {"Ok", "Clipboard"}
            /\ DOMAIN substitutions = {})
        => IF extract_variables(content) # {}
           THEN /\ stdout = <<Line("Found variables:", extract_variables(content), <<>>)>>
                /\ ~processed
                /\ clipboard = <<>>
           ELSE /\ ~processed
                /\ clipboard = <<content>>
    /\ \A n \in DOMAIN clipboard :
          \/ processed /\ clipboard[n] = process_content(content, substitutions)
          \/ extract_variables(content) = {} /\ clipboard[n] = content

\* A run without substitutions on a document with variables listed them.
C6_Witness ==
    /\ pc = "done"
    /\ Reconciles
    /\ DOMAIN substitutions = {}
    /\ Cardinality(variables) = 2
    /\ Len(stdout) = 1
    /\ stdout[1].vars = variables

-----------------------------------------------------------------------------
(* Claims about process_content and extract_variables (SpecText) *)

Covers(text, subs) == extract_variables(text) \subseteq DOMAIN subs

IsBrace(c) == c \in {"{", "}"}
NoBrace(s) == \A i \in 1..Len(s) : ~IsBrace(s[i])

\* Every brace of text belongs to a placeholder.
BracesOnlyInPlaceholders(text) ==
    LET caps == captures_iter(text)
    IN  \A i \in 1..Len(text) :
            IsBrace(text[i]) => \E n \in DOMAIN caps : caps[n].start <= i /\ i < caps[n].end

\* C7 as stated: when the mapping has an entry for every variable of the text,
\* the output of process_content has no placeholder.
C7_RoundTripAnyText ==
    (pc = "fn_done" /\ Covers(content, substitutions))
        => extract_variables(result) = {}

\* C7 amended: when the mapping has an entry for every variable of the text, no
\* value of the mapping holds a brace and the text has no brace outside its
\* placeholders, the output of process_content has no placeholder.
C7_RoundTrip ==
    (pc = "fn_done" /\ Covers(content, substitutions)
        /\ (\A k \in DOMAIN substitutions : NoBrace(substitutions[k]))
        /\ BracesOnlyInPlaceholders(content))
        => extract_variables(result) = {}

\* Two variables, one of them written in upper case, were both replaced.
C7_Witness ==
    /\ pc = "fn_done"
    /\ variables = {<<"a">>, <<"b">>}
    /\ Covers(content, substitutions)
    /\ \A k \in DOMAIN substitutions : NoBrace(substitutions[k])
    /\ BracesOnlyInPlaceholders(content)
    /\ \E n \in DOMAIN captures_iter(content) :
          captures_iter(content)[n].name = <<"A">>
    /\ NoBrace(result)

Occurs(piece, s) ==
    \E i \in 1..(Len(s) - Len(piece) + 1) : SubSeq(s, i, i + Len(piece) - 1) = piece

Unmapped(cap, subs) == to_lowercase(cap.name) \notin DOMAIN subs

PlaceholderNames(text) ==
    LET N == Len(text)
        RunStart(j) == IsWord(text[j]) /\ (j = 1 \/ ~IsWord(text[j - 1]))
        RunEnd(j) == SkipWord(text, j) - 1
        Before(j) == IF \E a \in 1..(j - 1) : ~IsSpace(text[a])
                     THEN CHOOSE a \in 1..(j - 1) :
                            ~IsSpace(text[a]) /\ \A c \in (a + 1)..(j - 1) : IsSpace(text[c])
                     ELSE 0
        After(k) == SkipSpace(text, k + 1)
        Opened(j) == LET a == Before(j)
                     IN  a >= 2 /\ text[a] = "{" /\ text[a - 1] = "{"
        Closed(k) == LET b == After(k)
                     IN  b + 1 <= N /\ text[b] = "}" /\ text[b + 1] = "}"
    IN  {to_lowercase(SubSeq(text, j, RunEnd(j))) :
            j \in {i \in 1..N : RunStart(i) /\ Opened(i) /\ Closed(RunEnd(i))}}

\* C10: extract_variables(text) is the set of the folded names of the
\* placeholders of text, one member for a name however often and in whatever
\* case it is written, and empty when text has no placeholder.
C10_ExtractVariables ==
    pc \in {"fn_process", "fn_done"} =>
        /\ variables = PlaceholderNames(content)
        /\ \A v \in variables : v = to_lowercase(v)
        /\ (captures_iter(content) = <<>>) <=> (variables = {})

\* {{a}}, {{ a }} and {{A}} gave the single member a.
C10_Witness ==
    /\ pc = "fn_done"
    /\ content = PhA \o PhSpacedA \o PhUpperA
    /\ variables = {<<"a">>}

-----------------------------------------------------------------------------
(* Claims about parse_substitution (SpecParse) *)

\* C9: parse_substitution splits at the first '=' only: the format error iff
\* there is no '=', the missing-value error naming the folded key iff nothing
\* follows the first '=', else the folded text before the first '=' as key and
\* everything after it as value.
C9_SplitAtFirstEq ==
    pc = "fn_done" =>
        LET eqs == {i \in 1..Len(sub) : sub[i] = "="}
        IN  /\ (parsed.kind = "InvalidFormat") <=> (eqs = {})
            /\ eqs # {} =>
                  LET first == CHOOSE i \in eqs : \A k \in eqs : i <= k
                      before == [i \in 1..(first - 1) |-> LowerChar(sub[i])]
                      after == [i \in 1..(Len(sub) - first) |-> sub[first + i]]
                  IN  /\ (parsed.kind = "MissingValue") <=> (first = Len(sub))
                      /\ parsed.kind = "MissingValue" => parsed.detail = before
                      /\ first < Len(sub) =>
                            (parsed.ok /\ parsed.value = <<before, after>>)

\* A value that itself holds '=' came back whole, with its key folded.
C9_Witness ==
    /\ pc = "fn_done"
    /\ sub = <<"B", "=", "a", "=">>
    /\ parsed.ok
    /\ parsed.value = <<<<"b">>, <<"a", "=">>>>

====
